---- MODULE Spec2Model ----
(***************************************************************************)
(* A model of elboto's VALORANT API client                                 *)
(* (src/elboto/cogs/utils/valorant_api.py).                                *)
(*                                                                         *)
(*  - Spec:     one RiotAPIClient shared by NumCallers asyncio tasks, each *)
(*              making one call (refresh_tokens, get_userinfo or get_mmr). *)
(*              A step of the model is the code a task runs between two    *)
(*              suspension points (awaits that really suspend).            *)
(*  - SpecScan: get_current_compet_stats paging through a match feed that  *)
(*              the server chooses page by page.                           *)
(***************************************************************************)
EXTENDS Integers, Sequences, FiniteSets, TLC

\* ---------------------------------------------------------------- bounds
NumCallers == 2
MaxTime == 2
MaxPageLen == 2
MaxWrites == 2

Callers == 1..NumCallers

\* Optional[...] values: None is the empty tuple, a present value x is <<x>>.
None == << >>
Some(x) == <<x>>

\* expires_in values the authorization server may answer with.
ExpiresInValues == {0, 1}

VARIABLES
    \* --- RiotAPIClient
    access_token,        \* self._access_token
    id_token,            \* self._id_token
    entitlements_token,  \* self._entitlements_token
    expires,             \* self._expires
    locked,              \* self._refresh_lock: 0 when free, else the task holding it
    waiters,             \* self._refresh_lock._waiters, in arrival order
    session,             \* self.session: number of the current ClientSession
    open,                \* the ClientSessions that were created and not closed
    \* --- environment
    now,                 \* datetime.datetime.utcnow()
    \* --- the calling tasks
    pc,                  \* where each task is suspended
    op,                  \* the method each task called
    force,               \* the force argument of its refresh_tokens call
    \* --- history
    logins,              \* number of _update_tokens executions started
    obs,                 \* _are_tokens_valid() at the point refresh_tokens returned to the task
    err,                 \* why the task's call raised: "login" (a login step failed),
                         \* "assert" (the post-condition), "request", "cancelled"
    pre,                 \* the four token fields when the running login sequence started
    preValid,            \* _are_tokens_valid() when the running login sequence started
    expiredSeen,         \* the clock has passed a populated self._expires
    reqSession,          \* the session a task's in-flight authenticated request uses
    \* --- get_current_compet_stats
    scan_pc,             \* "idle", "fetching" (awaiting get_mmr) or "done"
    puuid,               \* the requested player
    page_no,             \* position in the list [5, 10, 20, 20]
    start_index,         \* start_index
    requested,           \* the (startIndex, endIndex) windows requested so far
    fetched,             \* the pages get_mmr returned so far
    result               \* what the call returned or raised

VARIABLES
    \* --- shutdown
    unloaded,            \* RiotAPIClient.unload() was called
    \* --- Henrik3APIClient.get_puuid
    hk_pc,               \* "idle", "waiting" (request in flight) or "done"
    hk_name,             \* the name argument
    hk_tag,              \* the tag argument
    hk_data,             \* the JSON envelope received
    hk_result,           \* what the call returned or raised
    \* --- Valorant._get_client
    valorant_creds,      \* self.bot.config.valorant_creds
    clients,             \* self._clients: region -> client (0: no entry)
    constructed,         \* the regions of the RiotAPIClients constructed, in order
    gc_result,           \* what the last _get_client call returned or raised
    \* --- PersistDictStorage
    cache,               \* self._cache of the storage that writes
    file,                \* the text of runtime/<name>.json (None: no such file)
    reopened,            \* self._cache of a storage opened later with the same name
    written,             \* key -> the value most recently written under it
    nwrites              \* number of store_str / write_json calls so far

clientVars == <<access_token, id_token, entitlements_token, expires, locked, waiters,
                session, open, now, pc, op, force, logins, obs, err, pre, preValid,
                expiredSeen, reqSession>>
scanVars == <<scan_pc, puuid, page_no, start_index, requested, fetched, result>>
henrikVars == <<hk_pc, hk_name, hk_tag, hk_data, hk_result>>
cogVars == <<valorant_creds, clients, constructed, gc_result>>
storeVars == <<cache, file, reopened, written, nwrites>>
\* What the RiotAPIClient steps leave alone, and what the scan steps leave alone.
nonClientVars == <<scanVars, unloaded, henrikVars, cogVars, storeVars>>
nonScanVars == <<clientVars, unloaded, henrikVars, cogVars, storeVars>>
vars == <<clientVars, scanVars, unloaded, henrikVars, cogVars, storeVars>>

tokenVars == <<access_token, id_token, entitlements_token, expires>>

\* ------------------------------------------------------- RiotAPIClient

\* _are_tokens_valid, on explicit field values and clock reading.
TokensValid(a, i, e, x, t) ==
    IF a = None \/ i = None \/ e = None \/ x = None
    THEN FALSE
    ELSE IF t > x[1] THEN FALSE ELSE TRUE

AreTokensValid == TokensValid(access_token, id_token, entitlements_token, expires, now)

TokenSet == <<access_token, id_token, entitlements_token, expires>>

\* asyncio.Lock.acquire takes the lock at once only when it is free and no
\* waiter is queued; otherwise the task queues and suspends.
LockFree_NoLock == TRUE
LockFree == locked = 0 /\ waiters = << >>

\* refresh_tokens: the condition under which _update_tokens runs.
NeedsUpdate_IgnoreForce(f) == ~AreTokensValid
NeedsUpdate_Always(f) == TRUE
NeedsUpdate(f) == f \/ ~AreTokensValid

\* `assert self._are_tokens_valid()` after _update_tokens.
PostCondition_Skipped(a, i, e, x, t) == TRUE
PostCondition(a, i, e, x, t) == TokensValid(a, i, e, x, t)

\* The lock after task c left the `async with` block by an exception.
LockAfterExit_Leaked(c) == locked
LockAfterExit(c) == IF locked = c THEN 0 ELSE locked

\* The lock after task c left the `async with` block normally: refresh_tokens
\* has returned before get_userinfo / get_mmr send their request.
LockAfterReturn_HeldForRequest(c, o) == IF o = "refresh_tokens" THEN 0 ELSE c
LockAfterReturn(c, o) == 0

\* self.session.close() in _update_tokens: the open sessions without `current`.
CloseSession_Skipped(sessions, current) == sessions
CloseSession(sessions, current) == sessions \ {current}

\* _make_session(): a ClientSession that did not exist before.
MakeSession_Reuse(current) == current
MakeSession(current) == current + 1

Remove(s, c) == SelectSeq(s, LAMBDA w: w # c)

InLogin == {"closing", "authorizing", "credentials", "entitlement"}
Suspended == InLogin \cup {"waiting", "request"}

Ops == {"refresh_tokens", "get_userinfo", "get_mmr"}

\* refresh_tokens returned normally to task c: the task either is done
\* (it called refresh_tokens itself) or builds its headers and issues its request.
Returned(c, valid, o) ==
    /\ pc' = [pc EXCEPT ![c] = IF o = "refresh_tokens" THEN "returned" ELSE "request"]
    /\ obs' = [obs EXCEPT ![c] = IF valid THEN "valid" ELSE "invalid"]
    /\ reqSession' = [reqSession EXCEPT ![c] = IF o = "refresh_tokens" THEN 0 ELSE session]

\* Task c holds the lock (just acquired) and runs the body of refresh_tokens
\* up to its first suspension point.
Enter(c, o, f) ==
    IF NeedsUpdate(f)
    THEN \* _update_tokens: session.close() is called on the current session
         /\ locked' = c
         /\ logins' = logins + 1
         /\ open' = CloseSession(open, session)
         /\ pc' = [pc EXCEPT ![c] = "closing"]
         /\ pre' = TokenSet
         /\ preValid' = AreTokensValid
         /\ UNCHANGED <<obs, reqSession>>
    ELSE \* nothing to do: the lock is released again in the same step
         /\ locked' = LockAfterReturn(c, o)
         /\ Returned(c, AreTokensValid, o)
         /\ UNCHANGED <<logins, open, pre, preValid>>

\* A task calls refresh_tokens(f), get_userinfo() or get_mmr().
Call(c, o, f) ==
    /\ pc[c] = "idle"
    /\ o = "refresh_tokens" \/ f = FALSE
    /\ op' = [op EXCEPT ![c] = o]
    /\ force' = [force EXCEPT ![c] = f]
    /\ IF LockFree
       THEN /\ Enter(c, o, f)
            /\ UNCHANGED waiters
       ELSE /\ waiters' = Append(waiters, c)
            /\ pc' = [pc EXCEPT ![c] = "waiting"]
            /\ UNCHANGED <<locked, logins, open, pre, preValid, obs, reqSession>>
    /\ UNCHANGED <<tokenVars, session, now, err, expiredSeen, nonClientVars>>

\* The first waiter, woken by release(), takes the lock.
Resume(c) ==
    /\ pc[c] = "waiting"
    /\ locked = 0
    /\ waiters # << >> /\ Head(waiters) = c
    /\ waiters' = Tail(waiters)
    /\ Enter(c, op[c], force[c])
    /\ UNCHANGED <<tokenVars, session, now, op, force, err, expiredSeen, nonClientVars>>

\* An exception leaves refresh_tokens: `async with` releases the lock.
Raise(c, step) ==
    /\ pc' = [pc EXCEPT ![c] = "raised"]
    /\ err' = [err EXCEPT ![c] = step]
    /\ locked' = LockAfterExit(c)
    /\ pre' = <<None, None, None, None>>
    /\ preValid' = FALSE

\* session.close() finished; _make_session(); _do_authorization posts.
CloseDone(c) ==
    /\ pc[c] = "closing"
    /\ session' = MakeSession(session)
    /\ open' = open \cup {MakeSession(session)}
    /\ pc' = [pc EXCEPT ![c] = "authorizing"]
    /\ UNCHANGED <<tokenVars, locked, waiters, now, op, force, logins, obs, err, pre,
                   preValid, expiredSeen, reqSession, nonClientVars>>

\* The authorization POST completed; _update_access_token sends the PUT.
AuthorizeDone(c, ok) ==
    /\ pc[c] = "authorizing"
    /\ IF ok
       THEN /\ pc' = [pc EXCEPT ![c] = "credentials"]
            /\ UNCHANGED <<locked, err, pre, preValid>>
       ELSE Raise(c, "login")
    /\ UNCHANGED <<tokenVars, waiters, session, open, now, op, force, logins, obs,
                   expiredSeen, reqSession, nonClientVars>>

\* The credentials PUT completed. On success three fields are assigned and
\* _update_entitlement_token sends its POST.
CredentialsDone(c, ok, expires_in) ==
    /\ pc[c] = "credentials"
    /\ IF ok
       THEN /\ access_token' = Some(logins)
            /\ id_token' = Some(logins)
            /\ expires' = Some(now + expires_in)
            /\ pc' = [pc EXCEPT ![c] = "entitlement"]
            /\ UNCHANGED <<locked, err, pre, preValid>>
       ELSE /\ Raise(c, "login")
            /\ UNCHANGED <<access_token, id_token, expires>>
    /\ UNCHANGED <<entitlements_token, waiters, session, open, now, op, force, logins,
                   obs, expiredSeen, reqSession, nonClientVars>>

\* The entitlements POST completed. On success the fourth field is assigned,
\* _update_tokens returns and refresh_tokens asserts validity.
EntitlementDone(c, ok) ==
    /\ pc[c] = "entitlement"
    /\ IF ok
       THEN /\ entitlements_token' = Some(logins)
            /\ IF PostCondition(access_token, id_token, Some(logins), expires, now)
               THEN /\ locked' = LockAfterReturn(c, op[c])
                    /\ Returned(c, TokensValid(access_token, id_token, Some(logins),
                                               expires, now), op[c])
                    /\ pre' = <<None, None, None, None>>
                    /\ preValid' = FALSE
                    /\ UNCHANGED err
               ELSE /\ Raise(c, "assert")
                    /\ UNCHANGED <<obs, reqSession>>
       ELSE /\ Raise(c, "login")
            /\ UNCHANGED <<entitlements_token, obs, reqSession>>
    /\ UNCHANGED <<access_token, id_token, expires, waiters, session, open, now, op,
                   force, logins, expiredSeen, nonClientVars>>

\* The authenticated request of get_userinfo / get_mmr completed.
RequestDone(c, ok) ==
    /\ pc[c] = "request"
    /\ pc' = [pc EXCEPT ![c] = IF ok THEN "returned" ELSE "raised"]
    /\ err' = [err EXCEPT ![c] = IF ok THEN "none" ELSE "request"]
    /\ reqSession' = [reqSession EXCEPT ![c] = 0]
    /\ UNCHANGED <<tokenVars, locked, waiters, session, open, now, op, force, logins,
                   obs, pre, preValid, expiredSeen, nonClientVars>>

\* The task is cancelled while suspended: CancelledError is raised at the await.
Cancel(c) ==
    /\ pc[c] \in Suspended
    /\ pc' = [pc EXCEPT ![c] = "cancelled"]
    /\ err' = [err EXCEPT ![c] = "cancelled"]
    /\ locked' = LockAfterExit(c)
    /\ waiters' = Remove(waiters, c)
    /\ pre' = IF locked = c THEN <<None, None, None, None>> ELSE pre
    /\ preValid' = IF locked = c THEN FALSE ELSE preValid
    /\ reqSession' = [reqSession EXCEPT ![c] = 0]
    /\ UNCHANGED <<tokenVars, session, open, now, op, force, logins, obs,
                   expiredSeen, nonClientVars>>

\* Time passes.
Tick ==
    /\ now < MaxTime
    /\ now' = now + 1
    /\ expiredSeen' = (expiredSeen \/ (expires # None /\ now + 1 > expires[1]))
    /\ UNCHANGED <<tokenVars, locked, waiters, session, open, pc, op, force, logins,
                   obs, err, pre, preValid, reqSession, nonClientVars>>

ClientInit ==
    /\ access_token = None
    /\ id_token = None
    /\ entitlements_token = None
    /\ expires = None
    /\ locked = 0
    /\ waiters = << >>
    /\ session = 1
    /\ open = {1}
    /\ now = 0
    /\ pc = [c \in Callers |-> "idle"]
    /\ op = [c \in Callers |-> "none"]
    /\ force = [c \in Callers |-> FALSE]
    /\ logins = 0
    /\ obs = [c \in Callers |-> "none"]
    /\ err = [c \in Callers |-> "none"]
    /\ pre = <<None, None, None, None>>
    /\ preValid = FALSE
    /\ expiredSeen = FALSE
    /\ reqSession = [c \in Callers |-> 0]

ScanIdle ==
    /\ scan_pc = "idle"
    /\ puuid = "none"
    /\ page_no = 0
    /\ start_index = 0
    /\ requested = << >>
    /\ fetched = << >>
    /\ result = [kind |-> "pending"]

\* The parts of the model a specification does not exercise stay as they start.
Regions == {"na", "eu", "ap", "ko"}
HenrikIdle ==
    /\ hk_pc = "idle"
    /\ hk_name = "none"
    /\ hk_tag = "none"
    /\ hk_data = [status |-> "none"]
    /\ hk_result = [kind |-> "pending"]
CogIdle ==
    /\ clients = [r \in Regions |-> 0]
    /\ constructed = << >>
    /\ gc_result = [kind |-> "pending"]
StoreIdle ==
    /\ cache = << >>
    /\ file = None
    /\ reopened = None
    /\ written = << >>
    /\ nwrites = 0

Init ==
    /\ ClientInit /\ ScanIdle /\ unloaded = FALSE
    /\ HenrikIdle /\ StoreIdle
    /\ CogIdle /\ valorant_creds = [r \in Regions |-> <<Some("user"), Some("password")>>]

Next ==
    \/ \E c \in Callers, o \in Ops, f \in BOOLEAN : Call(c, o, f)
    \/ \E c \in Callers : Resume(c)
    \/ \E c \in Callers : CloseDone(c)
    \/ \E c \in Callers, ok \in BOOLEAN : AuthorizeDone(c, ok)
    \/ \E c \in Callers, ok \in BOOLEAN, e \in ExpiresInValues : CredentialsDone(c, ok, e)
    \/ \E c \in Callers, ok \in BOOLEAN : EntitlementDone(c, ok)
    \/ \E c \in Callers, ok \in BOOLEAN : RequestDone(c, ok)
    \/ \E c \in Callers : Cancel(c)
    \/ Tick

Spec == Init /\ [][Next]_vars

\* What the event loop and the network owe to a suspended task c: a woken
\* waiter is scheduled, and every awaited close or request completes, by
\* success or by failure.
Progress(c) ==
    \/ Resume(c)
    \/ CloseDone(c)
    \/ \E ok \in BOOLEAN : AuthorizeDone(c, ok)
    \/ \E ok \in BOOLEAN, e \in ExpiresInValues : CredentialsDone(c, ok, e)
    \/ \E ok \in BOOLEAN : EntitlementDone(c, ok)
    \/ \E ok \in BOOLEAN : RequestDone(c, ok)

SpecLive == Spec /\ \A c \in Callers : WF_vars(Progress(c))

\* --------------------------------------------- get_current_compet_stats

\* for num_records in [5, 10, 20, 20]
PageSizes == <<5, 10, 20, 20>>

Puuids == {"abc", "xyz"}
Tiers == {0, 12}
Ratings == {0, 34}

\* MatchStartTime (epoch milliseconds) of the feed entry at an index: the
\* feed is most recent first, and entries are told apart by their start time.
StartTimeOf(index) == (2000 - index) * 1000 + 7

Match(ta, tb, ra, rb, index) ==
    [TierAfterUpdate |-> ta, TierBeforeUpdate |-> tb,
     RankedRatingAfterUpdate |-> ra, RankedRatingBeforeUpdate |-> rb,
     MatchStartTime |-> StartTimeOf(index)]

\* The match lists a page requested from index `start` may carry.
MatchLists(start) ==
    UNION {[1..n -> {Match(ta, tb, ra, rb, 0) : ta \in Tiers, tb \in Tiers,
                                                ra \in Ratings, rb \in Ratings}]
           : n \in 0..MaxPageLen}
Dated(list, start) ==
    [i \in 1..Len(list) |-> [list[i] EXCEPT !.MatchStartTime = StartTimeOf(start + i - 1)]]

\* The JSON documents get_mmr may return for a window starting at `start`.
Responses(start) ==
    {[errorCode |-> e, hasMatches |-> TRUE, Matches |-> Dated(m, start), Subject |-> sub]
        : e \in BOOLEAN, m \in MatchLists(start), sub \in Puuids}
    \cup
    {[errorCode |-> e, hasMatches |-> FALSE, Matches |-> << >>, Subject |-> sub]
        : e \in BOOLEAN, sub \in Puuids}

\* The test that makes the loop `continue`.
IsUnrated_TiersOnly(match) ==
    match.TierAfterUpdate = 0 /\ match.TierBeforeUpdate = 0
IsUnrated(match) ==
    /\ match.TierAfterUpdate = 0
    /\ match.TierBeforeUpdate = 0
    /\ match.RankedRatingAfterUpdate = 0
    /\ match.RankedRatingBeforeUpdate = 0

\* for match in mmr_data["Matches"]: the position of the match the loop
\* returns on, 0 when it runs to the end.
RECURSIVE ScanMatches(_, _)
ScanMatches(matches, i) ==
    IF i > Len(matches) THEN 0
    ELSE IF IsUnrated(matches[i]) THEN ScanMatches(matches, i + 1)
    ELSE i

\* datetime.datetime.utcfromtimestamp(ms / 1000): whole seconds and microseconds.
UtcFromTimestamp(ms) == [seconds |-> ms \div 1000, microseconds |-> (ms % 1000) * 1000]

\* The returned tuple; int() of a JSON integer is that integer.
Stats(match) ==
    [kind |-> "stats",
     tier |-> match.TierAfterUpdate,
     rating |-> match.RankedRatingAfterUpdate,
     time |-> UtcFromTimestamp(match.MatchStartTime)]

\* Whether the outer loop has another num_records after entry n of the list.
HasNextPage_OffByOne(n) == n < Len(PageSizes) - 1
HasNextPage(n) == n < Len(PageSizes)

\* The get_mmr call of one loop iteration.
Window_EndExclusive(start, n) == <<start, start + PageSizes[n]>>
Window(start, n) == <<start, start + PageSizes[n] - 1>>

\* get_current_compet_stats(p) is called and awaits its first get_mmr.
ScanStart(p) ==
    /\ scan_pc = "idle"
    /\ puuid' = p
    /\ start_index' = 0
    /\ page_no' = 1
    /\ requested' = <<Window(0, 1)>>
    /\ scan_pc' = "fetching"
    /\ UNCHANGED <<fetched, result, nonScanVars>>

Finish(r) ==
    /\ result' = r
    /\ scan_pc' = "done"
    /\ UNCHANGED <<page_no, requested>>

\* `if not mmr_data["Matches"]`
NoMatches_Unchecked(mmr_data) == FALSE
NoMatches(mmr_data) == mmr_data.Matches = << >>

\* `assert mmr_data["Subject"] == puuid`
SubjectMatches_Unchecked(mmr_data) == TRUE
SubjectMatches(mmr_data) == mmr_data.Subject = puuid

\* get_mmr returned a page: the rest of the loop body, up to the next get_mmr.
Process(mmr_data) ==
    /\ fetched' = Append(fetched, mmr_data)
    /\ IF mmr_data.errorCode
       THEN Finish([kind |-> "RiotAPIError", why |-> "errorCode"]) /\ UNCHANGED start_index
       ELSE IF ~mmr_data.hasMatches
       THEN Finish([kind |-> "RiotAPIError", why |-> "no Matches key"]) /\ UNCHANGED start_index
       ELSE IF NoMatches(mmr_data)
       THEN Finish([kind |-> "RiotAPIError", why |-> "no matches"]) /\ UNCHANGED start_index
       ELSE /\ start_index' = start_index + PageSizes[page_no]
            /\ IF ~SubjectMatches(mmr_data)
               THEN Finish([kind |-> "AssertionError"])
               ELSE LET hit == ScanMatches(mmr_data.Matches, 1) IN
                    IF hit # 0
                    THEN Finish(Stats(mmr_data.Matches[hit]))
                    ELSE IF HasNextPage(page_no)
                    THEN /\ page_no' = page_no + 1
                         /\ requested' = Append(requested, Window(start_index', page_no + 1))
                         /\ UNCHANGED <<scan_pc, result>>
                    ELSE Finish([kind |-> "None"])
    /\ UNCHANGED <<puuid, nonScanVars>>

FetchDone ==
    /\ scan_pc = "fetching"
    /\ \E mmr_data \in Responses(start_index) : Process(mmr_data)

\* get_mmr raised (a failed login, a transport error): the exception propagates.
FetchRaise ==
    /\ scan_pc = "fetching"
    /\ result' = [kind |-> "raised by get_mmr"]
    /\ scan_pc' = "done"
    /\ UNCHANGED <<puuid, page_no, start_index, requested, fetched, nonScanVars>>

ScanNext ==
    \/ \E p \in Puuids : ScanStart(p)
    \/ FetchDone
    \/ FetchRaise

SpecScan == Init /\ [][ScanNext]_vars

\* ------------------------------------------------ Henrik3APIClient.get_puuid

Names == {"Foo", "Bar"}
Tags == {"NA1", "0001"}

\* The envelope's status is a JSON string, kept as its characters.
Digits == <<"0", "1", "2", "3", "4", "5", "6", "7", "8", "9">>
Statuses == {<<"2", "0", "0">>, <<"4", "2", "9">>, <<"4", "0", "4">>, <<"o", "k">>}
Messages == {None, Some("Rate limited"), Some("Not found")}
\* data["data"]["puuid"]: a JSON string or a JSON number.
PuuidValues == {[type |-> "str", val |-> "p-1"], [type |-> "str", val |-> "p-2"],
                [type |-> "number", val |-> "7"]}
\* "data" is absent, or an object in which "puuid" is absent or has a value.
DataValues == {None, Some([puuid |-> None])} \cup {Some([puuid |-> Some(v)]) : v \in PuuidValues}
Envelopes == [status : Statuses, message : Messages, data : DataValues]

IsDigit(ch) == \E d \in 1..10 : Digits[d] = ch
DigitValue(ch) == (CHOOSE d \in 1..10 : Digits[d] = ch) - 1
\* int(text) for a text of decimal digits, most significant first.
RECURSIVE ParseInt(_)
ParseInt(text) ==
    IF text = << >> THEN 0
    ELSE ParseInt(SubSeq(text, 1, Len(text) - 1)) * 10 + DigitValue(text[Len(text)])
IsDecimal(text) == text # << >> /\ \A k \in 1..Len(text) : IsDigit(text[k])

\* The code Henrik3APIError is raised with: int(data["status"]).
ErrorCode_Generic(status) == Len(status)
ErrorCode(status) == ParseInt(status)

\* isinstance(puuid, str)
IsStr_Any(v) == TRUE
IsStr(v) == v.type = "str"

\* What get_puuid does with the decoded envelope.
PuuidOutcome(data) ==
    IF data.status # <<"2", "0", "0">>
    THEN IF ~IsDecimal(data.status) THEN [kind |-> "ValueError"]
         ELSE IF data.message = None THEN [kind |-> "KeyError"]
         ELSE [kind |-> "Henrik3APIError", code |-> ErrorCode(data.status),
               message |-> data.message[1]]
    ELSE IF data.data = None THEN [kind |-> "AssertionError", why |-> "no data"]
    ELSE IF data.data[1].puuid = None THEN [kind |-> "AssertionError", why |-> "no puuid"]
    ELSE IF ~IsStr(data.data[1].puuid[1])
    THEN [kind |-> "AssertionError", why |-> "puuid is not a string"]
    ELSE [kind |-> "returned", puuid |-> data.data[1].puuid[1].val]

\* get_puuid(name, tag) opens a session and sends its GET.
GetPuuid(name, tag) ==
    /\ hk_pc = "idle"
    /\ hk_name' = name
    /\ hk_tag' = tag
    /\ hk_pc' = "waiting"
    /\ UNCHANGED <<hk_data, hk_result, clientVars, scanVars, unloaded, cogVars, storeVars>>

\* The response arrived and was decoded.
PuuidResponse(data) ==
    /\ hk_pc = "waiting"
    /\ hk_data' = data
    /\ hk_result' = PuuidOutcome(data)
    /\ hk_pc' = "done"
    /\ UNCHANGED <<hk_name, hk_tag, clientVars, scanVars, unloaded, cogVars, storeVars>>

\* The request failed in the transport.
PuuidTransportError ==
    /\ hk_pc = "waiting"
    /\ hk_result' = [kind |-> "ClientError"]
    /\ hk_pc' = "done"
    /\ UNCHANGED <<hk_name, hk_tag, hk_data, clientVars, scanVars, unloaded, cogVars,
                   storeVars>>

PuuidNext ==
    \/ \E name \in Names, tag \in Tags : GetPuuid(name, tag)
    \/ \E data \in Envelopes : PuuidResponse(data)
    \/ PuuidTransportError

SpecPuuid == Init /\ [][PuuidNext]_vars

\* ----------------------------------------------------- Valorant._get_client

\* bot.config.valorant_creds[region]: (username, password), either may be None.
CredPairs == {<<Some("user"), Some("password")>>, <<None, Some("password")>>,
              <<Some("user"), None>>}

\* region in self._clients
Known_Never(region) == FALSE
Known(region) == clients[region] # 0

\* _get_client(region) runs without an await: one step.  A client is named
\* by its position in the order of construction.
GetClient(region) ==
    /\ IF Known(region)
       THEN /\ gc_result' = [kind |-> "returned", region |-> region,
                             client |-> clients[region]]
            /\ UNCHANGED <<clients, constructed>>
       ELSE IF valorant_creds[region][1] = None \/ valorant_creds[region][2] = None
       THEN /\ gc_result' = [kind |-> "CommandError", region |-> region]
            /\ UNCHANGED <<clients, constructed>>
       ELSE /\ constructed' = Append(constructed, region)
            /\ clients' = [clients EXCEPT ![region] = Len(constructed) + 1]
            /\ gc_result' = [kind |-> "returned", region |-> region,
                             client |-> Len(constructed) + 1]
    /\ UNCHANGED <<valorant_creds, clientVars, scanVars, unloaded, henrikVars, storeVars>>

CogInit ==
    /\ ClientInit /\ ScanIdle /\ unloaded = FALSE /\ HenrikIdle /\ StoreIdle
    /\ CogIdle
    /\ valorant_creds \in [Regions -> CredPairs]

CogNext == \E region \in Regions : GetClient(region)

SpecGetClient == CogInit /\ [][CogNext]_vars

\* ------------------------------------------------------ RiotAPIClient.unload

\* unload() closes the session the client holds at that moment; it takes no
\* lock and waits for nothing.
Unload ==
    /\ ~unloaded
    /\ unloaded' = TRUE
    /\ open' = open \ {session}
    /\ UNCHANGED <<tokenVars, locked, waiters, session, now, pc, op, force, logins, obs,
                   err, pre, preValid, expiredSeen, reqSession, scanVars, henrikVars,
                   cogVars, storeVars>>

\* No command starts after the shutdown.
CallBeforeUnload(c, o, f) ==
    /\ ~unloaded
    /\ Call(c, o, f)

\* The client's operations with a shutdown at any moment.
UnloadNext ==
    \/ \E c \in Callers, o \in Ops, f \in BOOLEAN : CallBeforeUnload(c, o, f)
    \/ \E c \in Callers : Resume(c)
    \/ \E c \in Callers : CloseDone(c)
    \/ \E c \in Callers, ok \in BOOLEAN : AuthorizeDone(c, ok)
    \/ \E c \in Callers, ok \in BOOLEAN, e \in ExpiresInValues : CredentialsDone(c, ok, e)
    \/ \E c \in Callers, ok \in BOOLEAN : EntitlementDone(c, ok)
    \/ \E c \in Callers, ok \in BOOLEAN : RequestDone(c, ok)
    \/ \E c \in Callers : Cancel(c)
    \/ Tick
    \/ Unload

SpecUnload == Init /\ [][UnloadNext]_vars

\* -------------------------------------------------------- PersistDictStorage

Keys == {"alice", "bob"}

\* Python values, tagged with their type.
Str(text) == [t |-> "str", v |-> text]
Tuple(items) == [t |-> "tuple", v |-> items]
List(items) == [t |-> "list", v |-> items]
Dict(members) == [t |-> "dict", v |-> members]
SetOf(items) == [t |-> "set", v |-> items]

\* Arguments of store_str.
StrValues == {Str("na"), Str("eu")}
\* Arguments of write_json: Dict[str, Any].
DictValues == {Dict([region |-> Str("na"), id |-> Str("abc")]),
               Dict([pair |-> Tuple(<<Str("na"), Str("abc")>>)]),
               Dict([pair |-> List(<<Str("na"), Str("abc")>>)]),
               Dict([seen |-> SetOf({"na"})])}

\* json.dumps raises TypeError for a value with a set in it.
RECURSIVE Serializable(_)
Serializable(value) ==
    CASE value.t = "str" -> TRUE
      [] value.t \in {"tuple", "list"} -> \A i \in 1..Len(value.v) : Serializable(value.v[i])
      [] value.t = "dict" -> \A k \in DOMAIN value.v : Serializable(value.v[k])
      [] OTHER -> FALSE

\* json.dumps(value): the JSON document, as its syntax tree.
RECURSIVE Dumps(_)
Dumps(value) ==
    CASE value.t = "str" -> [j |-> "string", s |-> value.v]
      [] value.t \in {"tuple", "list"} ->
             [j |-> "array", items |-> [i \in 1..Len(value.v) |-> Dumps(value.v[i])]]
      [] value.t = "dict" ->
             [j |-> "object", members |-> [k \in DOMAIN value.v |-> Dumps(value.v[k])]]

\* json.loads(text): strings, lists and dicts.
RECURSIVE Loads(_)
Loads(text) ==
    CASE text.j = "string" -> Str(text.s)
      [] text.j = "array" -> List([i \in 1..Len(text.items) |-> Loads(text.items[i])])
      [] text.j = "object" -> Dict([k \in DOMAIN text.members |-> Loads(text.members[k])])

\* self._cache[key] = value
Assign(dict, key, value) ==
    [k \in DOMAIN dict \cup {key} |-> IF k = key THEN value ELSE dict[k]]

\* _flush_cache(): the text written to the file, or the file as it was when
\* json.dumps raises.
FlushCache(dict, old) ==
    IF Serializable(Dict(dict)) THEN Some(Dumps(Dict(dict))) ELSE old

\* Body of store_str and of write_json.  `written` keeps, per key, the value
\* of the last call; an instance opened before the call is left aside.
Store(key, value) ==
    /\ nwrites < MaxWrites
    /\ nwrites' = nwrites + 1
    /\ cache' = Assign(cache, key, value)
    /\ file' = FlushCache(cache', file)
    /\ written' = Assign(written, key, value)
    /\ reopened' = None
    /\ UNCHANGED <<clientVars, scanVars, unloaded, henrikVars, cogVars>>

StoreStr(key, value) ==
    /\ value.t = "str"
    /\ Store(key, value)

WriteJson(key, value) ==
    /\ value.t = "dict"
    /\ Store(key, value)

\* PersistDictStorage(name) once more, with the same name.
Open ==
    /\ reopened = None
    /\ reopened' = Some(IF file = None THEN << >> ELSE Loads(file[1]).v)
    /\ UNCHANGED <<cache, file, written, nwrites, clientVars, scanVars, unloaded,
                   henrikVars, cogVars>>

\* read_str(key) / read_json(key)
Read(dict, key) == dict[key]

StoreNext ==
    \/ \E key \in Keys, value \in StrValues : StoreStr(key, value)
    \/ \E key \in Keys, value \in DictValues : WriteJson(key, value)
    \/ Open

SpecStore == Init /\ [][StoreNext]_vars

\* ------------------------------------- RiotAPIClient of cogs/valorant.py

\* refresh_tokens / get_userinfo / get_mmr of the client the cog constructs:
\* the validity test and the start of _update_tokens, with no lock around
\* them and with the session given at construction.  The three steps of
\* _update_tokens are those of the client above.
CogRefreshTokens(c, o, f) ==
    /\ pc[c] = "idle"
    /\ o = "refresh_tokens" \/ f = FALSE
    /\ op' = [op EXCEPT ![c] = o]
    /\ force' = [force EXCEPT ![c] = f]
    /\ IF NeedsUpdate(f)
       THEN /\ logins' = logins + 1
            /\ pc' = [pc EXCEPT ![c] = "authorizing"]
            /\ UNCHANGED <<obs, reqSession>>
       ELSE /\ Returned(c, AreTokensValid, o)
            /\ UNCHANGED logins
    /\ UNCHANGED <<tokenVars, locked, waiters, session, open, now, err, pre, preValid,
                   expiredSeen, nonClientVars>>

CogClientNext ==
    \/ \E c \in Callers, o \in Ops, f \in BOOLEAN : CogRefreshTokens(c, o, f)
    \/ \E c \in Callers, ok \in BOOLEAN : AuthorizeDone(c, ok)
    \/ \E c \in Callers, ok \in BOOLEAN, e \in ExpiresInValues : CredentialsDone(c, ok, e)
    \/ \E c \in Callers, ok \in BOOLEAN : EntitlementDone(c, ok)
    \/ \E c \in Callers, ok \in BOOLEAN : RequestDone(c, ok)
    \/ \E c \in Callers : Cancel(c)
    \/ Tick

SpecCogClient == Init /\ [][CogClientNext]_vars

\* ----------------------------------------------------------------- claims

InSequence(c) == pc[c] \in InLogin
Populated(x) == x # None
\* The login sequence (numbered by `logins`) a populated token came from.
Origin(x) == x[1]

\* C1: N concurrent non-forced refresh_tokens() calls on a client whose Token
\* Set starts invalid, with every login step succeeding and the tokens never
\* expiring: exactly one login sequence executes, and every call that has
\* returned did so with a valid Token Set.
C1_Run ==
    /\ \A c \in Callers : op[c] \in {"none", "refresh_tokens"} /\ ~force[c]
    /\ \A c \in Callers : pc[c] \notin {"raised", "cancelled"}
    /\ ~expiredSeen
C1_ExactlyOneLogin ==
    C1_Run =>
        /\ logins <= 1
        /\ \A c \in Callers :
               pc[c] = "returned" => logins = 1 /\ obs[c] = "valid" /\ AreTokensValid
        /\ (\A c \in Callers : pc[c] # "idle") => logins = 1
\* One call ran the login and returned while another call, made meanwhile,
\* is still queued on the lock.
C1_Witness ==
    /\ C1_Run
    /\ logins = 1
    /\ \E c, d \in Callers :
           pc[c] = "returned" /\ obs[c] = "valid" /\ pc[d] = "waiting" /\ waiters = <<d>>

\* C2: at most one caller is inside the login sequence (_update_tokens) at
\* any time, whatever mix of calls is made.
C2_MutualExclusion ==
    \A c, d \in Callers : InSequence(c) /\ InSequence(d) => c = d
\* A get_mmr call arrives while another call's login is suspended on a
\* network step.
C2_Witness ==
    \E c, d \in Callers :
        /\ pc[c] = "credentials"
        /\ pc[d] = "waiting" /\ op[d] = "get_mmr"
        /\ logins = 1

\* C3: in every reachable state the four Token Set fields are all populated
\* or all absent.
C3_AllOrNone ==
    \/ /\ Populated(access_token) /\ Populated(id_token)
       /\ Populated(entitlements_token) /\ Populated(expires)
    \/ /\ ~Populated(access_token) /\ ~Populated(id_token)
       /\ ~Populated(entitlements_token) /\ ~Populated(expires)

\* C4: when a login sequence that started from an invalid Token Set fails at
\* any step, the Token Set is still invalid once refresh_tokens has raised.
C4_FailedLoginStaysInvalid ==
    [][\A c \in Callers :
          (InSequence(c) /\ pc'[c] = "raised" /\ ~preValid)
              => ~TokensValid(access_token', id_token', entitlements_token', expires', now')
      ]_vars

\* C5: whenever no login sequence is in progress the populated tokens all
\* come from the same login sequence (expires is assigned together with
\* access_token), and a login sequence that fails leaves the four fields as
\* they were when it started.
C5_ReplacedAsAWhole ==
    [][/\ (\A c \in Callers : pc'[c] \notin InLogin) =>
              \/ access_token' = None /\ id_token' = None /\ entitlements_token' = None
                   /\ expires' = None
              \/ /\ Populated(access_token') /\ Populated(id_token')
                 /\ Populated(entitlements_token') /\ Populated(expires')
                 /\ Origin(access_token') = Origin(id_token')
                 /\ Origin(access_token') = Origin(entitlements_token')
        /\ \A c \in Callers :
              (InSequence(c) /\ pc'[c] = "raised")
                  => <<access_token', id_token', entitlements_token', expires'>> = pre
      ]_vars

\* C6: whenever refresh_tokens() has returned without error the Token Set was
\* valid at that point, in particular when get_userinfo / get_mmr built their
\* request; a login whose result is not valid makes the call raise instead.
C6_ValidOnReturn ==
    \A c \in Callers :
        /\ (pc[c] = "request" \/ (pc[c] = "returned" /\ op[c] = "refresh_tokens"))
               => obs[c] = "valid"
        /\ obs[c] # "invalid"
\* One call's login ended in the post-condition failure; another call's
\* request is in flight.
C6_Witness ==
    \E c, d \in Callers :
        /\ pc[c] = "request" /\ obs[c] = "valid"
        /\ pc[d] = "raised" /\ err[d] = "assert" /\ obs[d] = "none"

\* C7: the step in which a call passes the lock and decides: non-forced on a
\* valid Token Set changes no token field, no session and starts no request
\* of its own; forced always starts a login sequence.
Decides(c) == pc[c] \in {"idle", "waiting"} /\ pc'[c] \notin {"idle", "waiting", "cancelled"}
C7_NoopOrForced ==
    [][\A c \in Callers :
          /\ (Decides(c) /\ ~force'[c] /\ AreTokensValid) =>
                 /\ UNCHANGED <<tokenVars, session, open, logins>>
                 /\ locked' = 0
                 /\ pc'[c] = IF op'[c] = "refresh_tokens" THEN "returned" ELSE "request"
          /\ (Decides(c) /\ force'[c]) =>
                 /\ logins' = logins + 1
                 /\ pc'[c] = "closing"
      ]_vars
\* A non-forced refresh_tokens() returned at once on the Token Set another
\* call's login had installed.
C7_Witness ==
    \E c, d \in Callers :
        /\ c # d
        /\ op[c] = "refresh_tokens" /\ ~force[c] /\ pc[c] = "returned"
        /\ force[d] /\ pc[d] = "returned"
        /\ logins = 1 /\ session = 2 /\ open = {2}
        /\ AreTokensValid

\* C8: a call that has ended (return, failed step, failed post-condition,
\* cancellation) does not hold the lock and is not queued on it; once no call
\* is waiting or logging in, the lock can be taken at once.
C8_LockReleased ==
    /\ locked # 0 => InSequence(locked)
    /\ \A i \in 1..Len(waiters) : pc[waiters[i]] = "waiting"
    /\ (\A c \in Callers : pc[c] \notin InLogin \cup {"waiting"}) => LockFree
\* A login was cancelled inside a network step, and the next caller holds
\* the lock.
C8_Witness ==
    \E c, d \in Callers :
        /\ pc[c] = "cancelled" /\ access_token = None /\ logins = 2
        /\ locked = d /\ pc[d] = "authorizing" /\ err[d] = "none"

\* The pages fetched so far, as one feed.
RECURSIVE FeedOf(_)
FeedOf(pages) ==
    IF pages = << >> THEN << >> ELSE pages[1].Matches \o FeedOf(Tail(pages))
GoodPage(page) ==
    ~page.errorCode /\ page.hasMatches /\ page.Matches # << >> /\ page.Subject = puuid
Rated(match) ==
    ~(match.TierBeforeUpdate = 0 /\ match.TierAfterUpdate = 0
      /\ match.RankedRatingBeforeUpdate = 0 /\ match.RankedRatingAfterUpdate = 0)
RatedAt(feed) == {i \in 1..Len(feed) : Rated(feed[i])}
FirstRated(feed) == feed[CHOOSE i \in RatedAt(feed) : \A j \in RatedAt(feed) : i <= j]
IsStatsOf(r, match) ==
    /\ r.kind = "stats"
    /\ r.tier = match.TierAfterUpdate
    /\ r.rating = match.RankedRatingAfterUpdate
    /\ r.time.seconds * 1000000 + r.time.microseconds = match.MatchStartTime * 1000

\* C9: over the pages fetched, when they are all non-empty and carry the
\* requested subject and hold a rated record, the call returns the stats of
\* the first rated record in feed order; and it never returns any other record.
C9_FirstRatedReturned ==
    scan_pc = "done" =>
        LET feed == FeedOf(fetched) IN
        /\ ((\A k \in 1..Len(fetched) : GoodPage(fetched[k])) /\ RatedAt(feed) # {})
               => IsStatsOf(result, FirstRated(feed))
        /\ result.kind = "stats"
               => RatedAt(feed) # {} /\ IsStatsOf(result, FirstRated(feed))
\* The scenario of the spec: a first page of unrated records only, then a page
\* whose rated record (12, 34) comes after an unrated one.
C9_Witness ==
    /\ scan_pc = "done" /\ result.kind = "stats"
    /\ result.tier = 12 /\ result.rating = 34
    /\ Len(fetched) = 2
    /\ Len(fetched[1].Matches) = 2
    /\ Len(fetched[2].Matches) = 2 /\ ~Rated(fetched[2].Matches[1])
    /\ fetched[2].Matches[2].TierBeforeUpdate = 0
    /\ fetched[2].Matches[2].RankedRatingBeforeUpdate = 0

\* C10: the call returns None exactly when all configured pages were fetched,
\* each non-empty with the requested subject, and every record was unrated.
C10_NoneIffBudgetExhausted ==
    scan_pc = "done" =>
        (result.kind = "None" <=>
            /\ Len(fetched) = Len(PageSizes)
            /\ Len(requested) = Len(PageSizes)
            /\ \A k \in 1..Len(fetched) : GoodPage(fetched[k])
            /\ RatedAt(FeedOf(fetched)) = {})
C10_Witness ==
    /\ scan_pc = "done" /\ result.kind = "None"
    /\ Len(fetched) = 4
    /\ \A k \in 1..4 : Len(fetched[k].Matches) = MaxPageLen

\* C11: a fetched page whose match list is empty ends the scan with
\* RiotAPIError, never with None or a result, also when it comes after pages
\* that held only unrated records.
C11_EmptyPageIsError ==
    \A k \in 1..Len(fetched) :
        (fetched[k].hasMatches /\ fetched[k].Matches = << >>) =>
            /\ k = Len(fetched)
            /\ scan_pc = "done"
            /\ result.kind = "RiotAPIError"
            /\ ~fetched[k].errorCode => result.why = "no matches"
\* Two pages of unrated records only, then an empty page.
C11_Witness ==
    /\ scan_pc = "done" /\ Len(fetched) = 3
    /\ RatedAt(FeedOf(fetched)) = {}
    /\ GoodPage(fetched[1]) /\ GoodPage(fetched[2])
    /\ ~fetched[3].errorCode /\ fetched[3].hasMatches /\ fetched[3].Matches = << >>
    /\ fetched[3].Subject = puuid
    /\ result.kind = "RiotAPIError"

\* C12 as claimed: the subject check comes first, so a page whose Subject
\* differs from the requested player ends the scan with the data-integrity
\* failure whatever its match list holds, an empty list included.
C12_SubjectCheckedFirst ==
    \A k \in 1..Len(fetched) :
        (~fetched[k].errorCode /\ fetched[k].hasMatches /\ fetched[k].Subject # puuid) =>
            scan_pc = "done" /\ result.kind = "AssertionError"
\* C12 as amended: a page without errorCode whose match list is not empty and
\* whose Subject differs from the requested player ends the scan with the
\* data-integrity failure (the failed assert), whether its records are all
\* unrated or include a rated one, and no record is returned; when the list
\* is empty the scan ends with RiotAPIError instead.
C12_SubjectCheckedAfterEmpty ==
    \A k \in 1..Len(fetched) :
        (~fetched[k].errorCode /\ fetched[k].hasMatches /\ fetched[k].Subject # puuid) =>
            /\ k = Len(fetched)
            /\ scan_pc = "done"
            /\ result.kind = IF fetched[k].Matches = << >> THEN "RiotAPIError"
                                                           ELSE "AssertionError"
\* A second page of another subject whose first record is rated.
C12_Witness ==
    /\ scan_pc = "done" /\ Len(fetched) = 2
    /\ GoodPage(fetched[1])
    /\ fetched[2].Subject # puuid /\ ~fetched[2].errorCode
    /\ fetched[2].Matches # << >> /\ Rated(fetched[2].Matches[1])
    /\ result.kind = "AssertionError"

Answered == hk_pc = "done" /\ hk_result.kind # "ClientError"
Status429 == <<"4", "2", "9">>
Status200 == <<"2", "0", "0">>

WellFormed(data) ==
    /\ data.data # None
    /\ data.data[1].puuid # None
    /\ data.data[1].puuid[1].type = "str"
C14_PuuidOnlyWhenWellFormed ==
    Answered =>
        /\ hk_result.kind = "returned" <=> (hk_data.status = Status200 /\ WellFormed(hk_data))
        /\ hk_result.kind = "returned" => hk_result.puuid = hk_data.data[1].puuid[1].val
        /\ (hk_data.status = Status200 /\ ~WellFormed(hk_data))
               => hk_result.kind = "AssertionError"
C14_Witness ==
    /\ Answered /\ hk_data.status = Status200
    /\ hk_result = [kind |-> "returned", puuid |-> "p-2"]

NoDuplicates(seq) == \A i, j \in 1..Len(seq) : seq[i] = seq[j] => i = j

\* C15: at most one client is ever constructed per region; the first call for
\* a region with credentials constructs and stores the client, a later call
\* returns that same client, and a call that fails for a missing username or
\* password constructs nothing and leaves the map of clients as it was.
C15_OneClientPerRegion ==
    [][/\ NoDuplicates(constructed')
       /\ \A r \in Regions : clients[r] # 0 => clients'[r] = clients[r]
       /\ gc_result'.kind = "CommandError" =>
              /\ UNCHANGED <<clients, constructed>>
              /\ clients[gc_result'.region] = 0
              /\ None \in {valorant_creds[gc_result'.region][1],
                           valorant_creds[gc_result'.region][2]}
       /\ gc_result'.kind = "returned" =>
              /\ gc_result'.client = clients'[gc_result'.region]
              /\ constructed'[gc_result'.client] = gc_result'.region
              /\ IF clients[gc_result'.region] # 0
                 THEN UNCHANGED <<clients, constructed>>
                 ELSE /\ constructed' = Append(constructed, gc_result'.region)
                      /\ \A r \in Regions \ {gc_result'.region} : clients'[r] = clients[r]
      ]_vars
\* Two regions have their clients, a repeated call for "na" got the first
\* client again, and "ko" has no password.
C15_Witness ==
    /\ constructed = <<"na", "eu">>
    /\ gc_result = [kind |-> "returned", region |-> "na", client |-> 1]
    /\ valorant_creds["ko"][2] = None

\* C16: after the shutdown, once no operation is in flight any more, every
\* session the client ever created is closed.
C16_AllSessionsClosed ==
    (unloaded /\ \A c \in Callers : pc[c] \notin Suspended) => open = {}

\* C17: after any writes, reading a key gives the value last written under
\* it, in the instance that wrote and in an instance opened afterwards with
\* the same name.
C17_RoundTrip ==
    \A k \in DOMAIN written :
        /\ k \in DOMAIN cache /\ Read(cache, k) = written[k]
        /\ reopened # None =>
               k \in DOMAIN reopened[1] /\ Read(reopened[1], k) = written[k]

\* C18: a login sequence goes through its steps in order, each once: the
\* stale session is closed, a fresh one is created, then the authorize POST,
\* the credential PUT and the entitlement POST follow over that session, then
\* the validity check; a step that fails ends the sequence, and an ended
\* call never resumes.
C18_LoginStepsInOrder ==
    [][\A c \in Callers :
        /\ (pc'[c] \in InLogin /\ pc[c] \notin InLogin) =>
               /\ pc[c] \in {"idle", "waiting"} /\ pc'[c] = "closing"
               /\ logins' = logins + 1
               /\ session \notin open'
        /\ pc[c] = "closing" =>
               /\ pc'[c] \in {"closing", "authorizing", "cancelled"}
               /\ pc'[c] = "authorizing" =>
                      /\ session' # session /\ session' \notin open
                      /\ session' \in open' /\ session \notin open'
        /\ pc[c] = "authorizing" =>
               pc'[c] \in {"authorizing", "credentials", "raised", "cancelled"}
        /\ pc[c] = "credentials" =>
               pc'[c] \in {"credentials", "entitlement", "raised", "cancelled"}
        /\ pc[c] = "entitlement" =>
               /\ pc'[c] \in {"entitlement", "returned", "request", "raised", "cancelled"}
               /\ pc'[c] \in {"returned", "request"} => AreTokensValid'
        /\ pc[c] \in {"authorizing", "credentials", "entitlement"} =>
               /\ session' = session /\ session \in open /\ session' \in open'
               /\ logins' = logins
        /\ pc[c] \in {"returned", "raised", "cancelled"} => pc'[c] = pc[c]
      ]_vars
\* Two login sequences ran to their end, each over a session of its own.
C18_Witness ==
    /\ logins = 2 /\ session = 3 /\ open = {3}
    /\ \A c \in Callers : pc[c] \in {"returned", "request"} /\ obs[c] = "valid"

\* C19: while the request of get_userinfo or get_mmr is in flight its caller
\* does not hold the refresh lock, so another caller with a valid token set
\* passes refresh_tokens and has its own request in flight at the same time.
C19_NoLockDuringRequest ==
    \A c \in Callers : pc[c] = "request" => locked # c
\* Every caller has its request in flight, after a single login.
C19_Witness ==
    /\ \A c \in Callers : pc[c] = "request" /\ obs[c] = "valid"
    /\ logins = 1 /\ locked = 0

\* C20: on the client of cogs/valorant.py at most one login sequence runs at
\* a time, and callers that do not force a refresh start one login among them
\* as long as the token set it installed stays valid.
C20_SerializedRefresh ==
    /\ \A c, d \in Callers : (pc[c] \in InLogin /\ pc[d] \in InLogin) => c = d
    /\ ((\A c \in Callers : ~force[c] /\ err[c] = "none") /\ ~expiredSeen) => logins <= 1

\* C21: the client has at most one open session, the one it holds; a session
\* is created only at construction or in a login sequence after the session
\* before it was closed, whether login sequences succeed, fail or are
\* cancelled.
C21_AtMostOneOpenSession ==
    [][/\ Cardinality(open') <= 1
       /\ open' \subseteq {session'}
       /\ session' # session => session \notin open /\ open' = {session'}
      ]_vars
\* A login failed, a later one succeeded, each on a session of its own, and
\* only the last session is open.
C21_Witness ==
    /\ \E c, d \in Callers : err[c] = "login" /\ pc[d] = "returned" /\ obs[d] = "valid"
    /\ logins = 2 /\ session = 3 /\ open = {3}

ExpectedWindows == <<<<0, 4>>, <<5, 14>>, <<15, 34>>, <<35, 54>>>>

\* C22: get_current_compet_stats requests at most 4 pages, the windows
\* [0,4], [5,14], [15,34], [35,54] in this order, each starting one past the
\* end of the one before, one request outstanding at a time; every completed
\* get_mmr call either ends the scan or is followed by the next window, so
\* the scan ends within 4 requests.
C22_WindowsTileAndTerminate ==
    [][/\ Len(requested') <= 4
       /\ \A k \in 1..Len(requested') : requested'[k] = ExpectedWindows[k]
       /\ \A k \in 2..Len(requested') : requested'[k][1] = requested'[k - 1][2] + 1
       /\ scan_pc' = "fetching" => Len(requested') = Len(fetched') + 1
       /\ scan_pc' = "done" => Len(requested') \in {Len(fetched'), Len(fetched') + 1}
       /\ scan_pc = "fetching" =>
              \/ scan_pc' = "done" /\ requested' = requested
              \/ /\ scan_pc' = "fetching"
                 /\ Len(fetched') = Len(fetched) + 1
                 /\ Len(requested') = Len(requested) + 1
       /\ scan_pc = "done" => scan_pc' = "done"
      ]_vars
C22_Witness ==
    /\ scan_pc = "done"
    /\ requested = ExpectedWindows
    /\ Len(fetched) = 4

\* C23: while the authenticated request of a caller is in flight, the session
\* it was issued on is open: no login sequence of another caller closes it.
C23_RequestSessionStaysOpen ==
    \A c \in Callers : pc[c] = "request" => reqSession[c] \in open

Ended == {"returned", "raised", "cancelled"}

\* C24: when the event loop is fair and every network step completes, every
\* call of refresh_tokens, get_userinfo and get_mmr ends, by returning or by
\* raising: no caller stays queued on the refresh lock.
C24_EveryCallEnds ==
    \A c \in Callers : (pc[c] \in Suspended) ~> (pc[c] \in Ended)
\* A caller that had to queue on the lock behind a login that failed has
\* run its own login and returned.
C24_Witness ==
    \E c, d \in Callers :
        /\ err[c] = "login" /\ pc[c] = "raised"
        /\ pc[d] = "returned" /\ obs[d] = "valid" /\ ~force[d]
        /\ logins = 2

====
